---- MODULE Spec2Model ----
(***************************************************************************)
(* Model of the grading run: GradingProcess.run / process_single_case      *)
(* (src/src/workflows/grading_process.py), the retry-wrapped operations of *)
(* ChatService (src/src/services/chat_service.py), SheetsService           *)
(* (src/src/services/sheets_service.py) and AIClientWrapper.create_cache   *)
(* (src/src/core/vertex_wrapper.py).                                       *)
(*                                                                         *)
(* The caller is one thread of control whose position is pc.  Every call   *)
(* to a collaborator (sheet, drive, provider) is one step whose outcome is *)
(* drawn from "ok" and the error classes of Errors.  A retry-wrapped       *)
(* operation is a loop of such steps, decided by tenacity's rule           *)
(* (AfterAttempt).  The stream consumer of _send_message_with_timeout is a *)
(* second thread (worker).                                                 *)
(***************************************************************************)
EXTENDS Naturals, Integers, Sequences, FiniteSets, TLC

\* ------------------------------------------------------------------ bounds
NumRows == 2
MaxChunks == 3

\* ------------------------------------------------------- program constants
MAX_RETRIES == 7
RETRY_MIN_WAIT == 5
RETRY_MAX_WAIT == 120
\* Config.API_TIMEOUT_SECONDS, and CHUNK_TIMEOUT_S of _send_message_with_timeout.
API_TIMEOUT_SECONDS == 1200
CHUNK_TIMEOUT_S == 180

\* ------------------------------------------------------------ data values
Rows == 1..NumRows

\* Exception classes the collaborators raise: a transient provider error and
\* an authentication error (both google.api_core subclasses of GoogleAPIError)
\* and the builtin ValueError (malformed input).  TimeoutError is raised by
\* _send_message_with_timeout itself.
Errors == {"ServiceUnavailable", "Unauthenticated", "ValueError"}

GoogleAPIErrors == {"ServiceUnavailable", "InternalServerError", "TooManyRequests",
                    "Unauthenticated", "InvalidArgument"}

\* isinstance(e, c) for the classes named in the retry decorators.
IsInstance(e, c) ==
    \/ c = "Exception"
    \/ e = c
    \/ c = "GoogleAPIError" /\ e \in GoogleAPIErrors

\* retry=retry_if_exception_type((...)) of each retry-wrapped operation.
ChatRetryTypes == {"GoogleAPIError", "InternalServerError", "ServiceUnavailable",
                   "TooManyRequests", "TimeoutError", "ConnectionError"}
FetchRetryTypes == {"GoogleAPIError", "TimeoutError", "ConnectionError"}
SheetRetryTypes == {"GoogleAPIError", "TimeoutError", "ConnectionError"}
CacheRetryTypes == {"Exception"}

RetryIfExceptionType(types, e) == \E c \in types : IsInstance(e, c)

\* An exception: its class, what its message says, and the class of the
\* exception of the last attempt, which is its own class except for tenacity's
\* RetryError, which wraps that exception.
NoExc == [cls |-> "none", last |-> "none", msg |-> "none"]
Raise(c, m) == [cls |-> c, last |-> c, msg |-> m]
\* An exception raised by a collaborator (sheet, drive, provider, file system).
Plain(e) == Raise(e, "collaborator")
RetryError(x) == [cls |-> "RetryError", last |-> x.cls, msg |-> x.msg]

\* Mutant of StopAfterAttempt: the stop test is off by one.
StopAfterAttempt_OffByOne(n) == n > MAX_RETRIES

\* stop=stop_after_attempt(Config.MAX_RETRIES)
StopAfterAttempt(n) == n >= MAX_RETRIES

\* tenacity's decision after attempt number n of a wrapped function raised an
\* exception x (a record; x.cls is its class): not of a retried type -> the
\* exception propagates as it is; stop reached -> RetryError wrapping it
\* (the decorators do not set reraise=True); otherwise sleep and call again.
AfterAttempt(types, n, x) ==
    IF ~RetryIfExceptionType(types, x.cls) THEN [next |-> "raise", exc |-> x]
    ELSE IF StopAfterAttempt(n) THEN [next |-> "raise", exc |-> RetryError(x)]
    ELSE [next |-> "retry", exc |-> NoExc]

Min(a, b) == IF a <= b THEN a ELSE b
Max(a, b) == IF a >= b THEN a ELSE b

\* Mutant of WaitExponential: the floor RETRY_MIN_WAIT is not applied.
WaitExponential_NoFloor(n) == Min(2 ^ (n - 1), RETRY_MAX_WAIT)

\* wait=wait_exponential(multiplier=1, min=RETRY_MIN_WAIT, max=RETRY_MAX_WAIT):
\* the seconds slept after attempt number n failed,
\* max(max(0, min), min(multiplier * 2 ** (n - 1), max)).
WaitExponential(n) ==
    Max(Max(0, RETRY_MIN_WAIT), Min(1 * 2 ^ (n - 1), RETRY_MAX_WAIT))

\* ---------------------------------------------------------- status texts
\* The addresses a Future can have in memory, as repr writes them: they differ
\* from run to run and from object to object.
FutureAddresses == {"0x7ffa1b070dd0", "0x7f3c5e9d2a10"}

\* str(e): the message of the exceptions the program raises itself (their
\* accented letters written without the accent), for an exception of a
\* collaborator its class name, and for a RetryError tenacity's text,
\* RetryError[repr(last_attempt)], in which the Future is written with its
\* address a.
Str(x, a) ==
    IF x.cls = "RetryError"
    THEN "RetryError[<Future at " \o a \o " state=finished raised " \o x.last \o ">]"
    ELSE IF x.msg = "collaborator" THEN x.cls
    ELSE IF x.msg = "no_documents"
    THEN "No se pudieron descargar documentos validos para el cliente."
    ELSE IF x.msg = "no_session" THEN "La sesion de chat no ha sido inicializada."
    ELSE IF x.msg = "zero_chunks"
    THEN "Vertex AI devolvio una respuesta vacia (0 chunks)."
    ELSE IF x.msg = "timeout" THEN "Timeout alcanzado esperando al modelo."
    ELSE "Vertex AI bloqueo la respuesta. " \o SubSeq(x.msg, 9, Len(x.msg))

\* Mutant of Truncate: the text is not cut.
Truncate_None(s, n) == s

\* s[:n]
Truncate(s, n) == IF Len(s) <= n THEN s ELSE SubSeq(s, 1, n)

\* f"ERROR: {str(e)[:50]}", the status of the except of process_single_case.
ErrorText(x, a) == "ERROR: " \o Truncate(Str(x, a), 50)

\* f"ERROR: No se pudo iniciar chat - {str(e)[:40]}"
InitErrorText(x, a) == "ERROR: No se pudo iniciar chat - " \o Truncate(Str(x, a), 40)

\* ------------------------------------------------------------- documents
\* docs_to_download, in the order process_single_case walks it.
DocKinds == <<"TRANSCRIPT_INTERVIEW", "DOE_ABUSE", "DOE_GMC", "DAIR", "FAIR",
              "RAPSHEET", "AI_SUMMARY">>

\* The kinds that carry a link in the rows of the model (the two the code
\* marks MAIN); the cells of the other kinds are blank.
LinkedKinds == {"TRANSCRIPT_INTERVIEW", "AI_SUMMARY"}

\* The links of a row: all its cells blank, or a link for each of LinkedKinds.
RowLinks == {{}, LinkedKinds}

\* Mutant of InOrder: the documents in the reverse order.
InOrder_Reversed(S) ==
    LET s == SelectSeq(DocKinds, LAMBDA k : k \in S) IN
    [i \in 1..Len(s) |-> s[Len(s) + 1 - i]]

\* patient_pdfs after the download loop: the kinds that resolved, in the
\* order of docs_to_download.
InOrder(S) == SelectSeq(DocKinds, LAMBDA k : k \in S)

\* ---------------------------------------------------------------- chunks
\* A streamed chunk: its text ("" when it has none), whether it carries usage
\* metadata, and the finish_reason of its first candidate ("none" when the
\* candidate has no finish_reason, "no_candidates" when the chunk has no
\* candidate).
ChunkValues == {[text |-> "abcde", usage |-> FALSE, finish |-> "none"],
                [text |-> "", usage |-> TRUE, finish |-> "STOP"],
                [text |-> "", usage |-> FALSE, finish |-> "SAFETY"]}

\* The text the model generates, which the chunks with text carry piece by
\* piece, and the piece the i-th chunk with text of a stream carries.
StreamText == "abcdefghijklmnopqrst"
Piece(i) == SubSeq(StreamText, 5 * ((i - 1) % 4) + 1, 5 * ((i - 1) % 4) + 5)

\* The chunks of cs that have text, in the order of cs.
WithText(cs) == SelectSeq(cs, LAMBDA c : c.text # "")

\* Mutant of JoinText: the text of the last chunk is taken for the whole.
JoinText_LastOnly(cs) == IF cs = <<>> THEN "" ELSE cs[Len(cs)].text

\* "".join(c.text for c in chunks if hasattr(c, 'text') and c.text)
RECURSIVE JoinText(_)
JoinText(cs) ==
    IF cs = <<>> THEN ""
    ELSE IF Head(cs).text # "" THEN Head(cs).text \o JoinText(Tail(cs))
    ELSE JoinText(Tail(cs))

\* finish_reason = getattr(last_chunk.candidates[0], 'finish_reason',
\* 'UNKNOWN') if hasattr(last_chunk, 'candidates') and last_chunk.candidates
\* else 'NO_CANDIDATES'
FinishReason(c) ==
    IF c.finish = "no_candidates" THEN "NO_CANDIDATES"
    ELSE IF c.finish = "none" THEN "UNKNOWN"
    ELSE c.finish

\* The message of the ValueError raised for a response without text: it names
\* the finish_reason read off the last chunk.
BlockedMessage(cs) == "blocked finish_reason=" \o FinishReason(cs[Len(cs)])

\* ------------------------------------------------------------------ state
VARIABLES
    pc,            \* position of the caller (run / process_single_case / services)
    run,           \* "running", "returned" (run returned), "raised" (run raised)
    sheet,         \* the work queue: row -> status cell, start cell, result cells
    cache_obj,     \* GradingProcess.cache_obj
    pending,       \* pending_rows of run
    idx,           \* position in pending_rows of the row being processed
    attempt,       \* attempt number of the retry-wrapped call in progress
    wgrAttempt,    \* attempt number of write_grading_results in progress
    exc,           \* the exception being handled / carried
    chat_session,  \* ChatService.chat_session
    model,         \* ChatService.model: "none", "from_cache" or "standard"
    patient_pdfs,  \* patient_pdfs of process_single_case
    chunks,        \* chunks of _send_message_with_timeout
    worker,        \* the consume_stream thread: "idle" (none), "running" (at
                   \* the for statement), "appended" (chunk appended, before
                   \* stop_event.set()), "caught" (error kept, before
                   \* stop_event.set()), "ending" (after the except clause),
                   \* "done" (finished)
    stream_error,  \* stream_error[0]
    stop_event,    \* stop_event of _send_message_with_timeout: is it set
    response,      \* the StreamResponse returned by _send_message_with_timeout
    tokens,        \* tokens of process_single_case (token_counts of the flow)
    last_call,     \* the retry-wrapped call that just ended (observation)
    procWritten,   \* rows for which PROCESSING was written in this run (observation)
    unrecorded,    \* rows whose ERROR status the except of process_single_case
                   \* could not write (observation)
    blocked,       \* rows whose model call had every attempt so far end without
                   \* text and with finish_reason SAFETY (observation)
    sheet0,        \* the sheet as it was when the run began (observation)
    caches,        \* number of caches created at the provider
    downloads,     \* the links of the row and the downloads that failed, as the
                   \* download loop of the case met them (observation)
    message_parts, \* message_parts of execute_grading_flow
    local_output_path, \* the local report of the case: "none" or "written"
    temp_dir,      \* the temp directory of the case on disk: "none" or "exists"
    report_file,   \* is there a file at the local output path of the case
                   \* (the path of its client): "none" or "written"
    grading_link,  \* grading_link of process_single_case: "none" or "link"
    status_text,   \* the text of the last status written to the sheet
    start_time,    \* the time in the start cell (column S) of the row last
                   \* written: "none", or the reading of the clock it holds
    last_init      \* how the most recent call of initialize_session ended:
                   \* "none" (never called), "ok" or "failed" (observation)

vars == <<pc, run, sheet, cache_obj, pending, idx, attempt, wgrAttempt, exc,
          chat_session, model, patient_pdfs, chunks, worker, stream_error, stop_event,
          response, tokens, last_call, procWritten, unrecorded, blocked, sheet0, caches, downloads,
          message_parts, local_output_path, grading_link, status_text, temp_dir,
          report_file, start_time, last_init>>

\* What the last step of a retry-wrapped operation did: attempt number
\* attempts of op raised the exception err (NoExc: it returned), and tenacity
\* called op again ("retry"), let the exception exc reach the caller ("raise")
\* or returned the result ("return").
\* waits are the times slept after the failed attempts 1..attempts of the call,
\* in order (none when the call has ended).
\* dropped is the number of chunks the attempt of _send_message_with_timeout
\* had received (the number its log lines give), which went with its chunks
\* list when the attempt ended (0 for the calls that receive no chunks).
NoCall ==
    [op |-> "none", attempts |-> 0, err |-> NoExc, next |-> "none", exc |-> NoExc,
     waits |-> <<>>, dropped |-> 0]
Returned(op, n) ==
    [op |-> op, attempts |-> n, err |-> NoExc, next |-> "return", exc |-> NoExc,
     waits |-> <<>>, dropped |-> 0]
Retried(op, n, x) ==
    [op |-> op, attempts |-> n, err |-> x, next |-> "retry", exc |-> NoExc,
     waits |-> [i \in 1..n |-> WaitExponential(i)], dropped |-> 0]
Raised(op, n, x, y) ==
    [op |-> op, attempts |-> n, err |-> x, next |-> "raise", exc |-> y,
     waits |-> <<>>, dropped |-> 0]
NoResponse == [text |-> "", usage |-> FALSE]
NoTokens == [output |-> 0]
\* No download loop has run in the case.
NoDownloads == [linked |-> {}, failed |-> {}, ran |-> FALSE]

Outcomes == {"ok"} \cup Errors

\* A row of the sheet as the run finds it: never processed, left PROCESSING by
\* an earlier run (with its start time), or completed by an earlier run.
InitialRows == {[status |-> "PENDING", start |-> FALSE, result |-> FALSE],
                [status |-> "PROCESSING", start |-> TRUE, result |-> FALSE],
                [status |-> "COMPLETED", start |-> TRUE, result |-> TRUE]}

Init ==
    /\ pc = "start"
    /\ run = "running"
    /\ sheet \in [Rows -> InitialRows]
    /\ cache_obj = "none"
    /\ pending = <<>>
    /\ idx = 0
    /\ attempt = 0
    /\ wgrAttempt = 0
    /\ exc = NoExc
    /\ chat_session = FALSE
    /\ model = "none"
    /\ patient_pdfs = <<>>
    /\ chunks = <<>>
    /\ worker = "idle"
    /\ stream_error = "none"
    /\ stop_event = FALSE
    /\ response = NoResponse
    /\ tokens = NoTokens
    /\ last_call = NoCall
    /\ procWritten = {}
    /\ unrecorded = {}
    /\ blocked = {}
    /\ sheet0 = sheet
    /\ caches = 0
    /\ downloads = NoDownloads
    /\ message_parts = <<>>
    /\ local_output_path = "none"
    /\ grading_link = "none"
    /\ status_text = "none"
    /\ start_time = "none"
    /\ last_init = "none"
    /\ temp_dir = "none"
    /\ report_file = "none"

\* ---------------------------------------------------------------- helpers
Row == pending[idx]

\* update_status(r, text): sheet.update_cell(r, COL_STATUS, text).  st is the
\* kind of status the text belongs to.
SetStatus(r, st, text) ==
    /\ sheet' = [sheet EXCEPT ![r].status = st]
    /\ status_text' = text
    /\ UNCHANGED start_time

\* Groups of variables that are left alone together.
cacheState == <<cache_obj, caches, sheet0>>
sessionState == <<chat_session, model, last_init>>
sheetState == <<sheet, status_text, start_time>>
docLocals == <<patient_pdfs, downloads, message_parts>>
diskState == <<temp_dir, report_file>>
reportLocals == <<response, tokens, local_output_path, grading_link>>

\* Mutant of NewParts: the parts of the message of the call before are still
\* in the list.
NewParts_Kept == message_parts

\* message_parts = []: every call of execute_grading_flow builds its message
\* in a list of its own; the list of the call before went with that call.
NewParts == <<>>

\* execute_grading_flow is over, by its return or by an exception: its
\* message_parts is gone; patient_pdfs of process_single_case stays until the
\* case returns.
FlowEnds ==
    /\ message_parts' = NewParts
    /\ UNCHANGED <<patient_pdfs, downloads>>

\* process_single_case is over: patient_pdfs is gone with its other locals.
DropDocuments ==
    /\ patient_pdfs' = <<>>
    /\ downloads' = NoDownloads
    /\ message_parts' = NewParts

\* Mutant of PendingFrom: rows left PROCESSING are taken as well.
RECURSIVE PendingFrom_TakesStale(_)
PendingFrom_TakesStale(r) ==
    IF r > NumRows THEN <<>>
    ELSE IF sheet[r].status \in {"PENDING", "PROCESSING"}
    THEN <<r>> \o PendingFrom_TakesStale(r + 1)
    ELSE PendingFrom_TakesStale(r + 1)

\* get_pending_rows: the rows whose status cell is 'PENDING PROCESSING', in
\* sheet order.
RECURSIVE PendingFrom(_)
PendingFrom(r) ==
    IF r > NumRows THEN <<>>
    ELSE IF sheet[r].status = "PENDING" THEN <<r>> \o PendingFrom(r + 1)
    ELSE PendingFrom(r + 1)

\* What can be at the local output path of case number i of rows when that
\* case begins.  The path is LOCAL_OUTPUT_DIR / the day / client_id and
\* client_name with a fixed suffix: the rows of one client share it, and
\* nothing removes a file from it, so a file is there when an earlier case of
\* the same client, of this run or of an earlier run of the day, left one.
\* (After the last case there is no case and no path.)
OutputPathFile(i, rows) ==
    IF i <= Len(rows) THEN {"none", "written"} ELSE {"none"}

\* The for loop of run: the next row of pending_rows, or the end of run.
LoopTo(i, rows) ==
    /\ idx' = i
    /\ IF i <= Len(rows) THEN pc' = "init_session" /\ run' = run
       ELSE pc' = "done" /\ run' = "returned"
    /\ \E f \in OutputPathFile(i, rows) : report_file' = f

\* process_single_case returns (its locals are gone) and run goes on.
CaseReturn ==
    /\ LoopTo(idx + 1, pending)
    /\ attempt' = 0
    /\ wgrAttempt' = 0
    /\ exc' = NoExc
    /\ DropDocuments
    /\ response' = NoResponse
    /\ tokens' = NoTokens
    /\ local_output_path' = "none"
    /\ grading_link' = "none"

\* The try block of process_single_case is left, by its end or by its except:
\* the finally clause is next.
ToFinally ==
    /\ pc' = "finally"
    /\ attempt' = 0
    /\ wgrAttempt' = 0
    /\ UNCHANGED <<run, idx, exc, docLocals, reportLocals>>

\* An exception leaves run (and reaches main).
RunRaises(x) ==
    /\ pc' = "done"
    /\ run' = "raised"
    /\ exc' = x
    /\ attempt' = 0

sendLocals == <<chunks, worker, stream_error, stop_event>>

\* -------------------------------------------------------------------- run
\* cache_service.ensure_fundamentos_cache(), whose module is not among the
\* sources: it creates the cache by one call of the retry-wrapped create_cache
\* and hands on what that call gives, its result or its exception.
EnsureFundamentosCache(d) == d

\* Mutant of StoreHandle: the handle of the cache is not kept.
StoreHandle_Dropped(h) == UNCHANGED cache_obj

\* self.cache_obj = cache_service.ensure_fundamentos_cache()
StoreHandle(h) == cache_obj' = h

\* Mutant of CacheFailure: the failure is logged and run goes on.
CacheFailure_Continues ==
    /\ pc' = "get_pending"
    /\ run' = run

\* except Exception of the cache preparation: logger.critical(...); return
CacheFailure ==
    /\ pc' = "done"
    /\ run' = "returned"

\* run, step 1: cache_service.ensure_fundamentos_cache(), which creates the
\* cache through the retry-wrapped create_cache; one attempt per step.
RunEnsureCache ==
    /\ pc = "start"
    /\ \E o \in Outcomes :
        IF o = "ok"
        THEN /\ StoreHandle("cache")
             /\ caches' = caches + 1
             /\ UNCHANGED sheet0
             /\ pc' = "get_pending"
             /\ attempt' = 0
             /\ last_call' = Returned("create_cache", attempt + 1)
             /\ UNCHANGED <<run, exc>>
        ELSE LET d == EnsureFundamentosCache(
                          AfterAttempt(CacheRetryTypes, attempt + 1, Plain(o))) IN
             IF d.next = "retry"
             THEN /\ attempt' = attempt + 1
                  /\ last_call' = Retried("create_cache", attempt + 1, Plain(o))
                  /\ UNCHANGED <<pc, run, exc, cacheState>>
             ELSE /\ CacheFailure
                  /\ attempt' = 0
                  /\ last_call' = Raised("create_cache", attempt + 1, Plain(o), d.exc)
                  /\ UNCHANGED <<exc, cacheState>>
    /\ UNCHANGED <<sheetState, diskState, pending, idx, wgrAttempt, sessionState, docLocals,
                   sendLocals, reportLocals, procWritten, unrecorded, blocked>>

\* run, step 2: sheets_service.get_pending_rows() (not retry-wrapped; an
\* error of the sheet read leaves run).
GetPendingRows ==
    /\ pc = "get_pending"
    /\ \E o \in Outcomes :
        IF o = "ok"
        THEN /\ pending' = PendingFrom(1)
             /\ LoopTo(1, PendingFrom(1))
             /\ UNCHANGED <<exc, attempt>>
        ELSE /\ RunRaises(Plain(o))
             /\ UNCHANGED <<pending, idx, report_file>>
    /\ last_call' = NoCall
    /\ UNCHANGED <<sheetState, cacheState, temp_dir, wgrAttempt, sessionState, docLocals,
                   sendLocals, reportLocals, procWritten, unrecorded, blocked>>

\* ---------------------------------------------------- process_single_case
\* chat_service.initialize_session: _fetch_doc_text(URL_SYSTEM_INSTRUCTIONS),
\* retry-wrapped; one attempt per step.
InitSessionFetch ==
    /\ pc = "init_session"
    /\ \E o \in Outcomes :
        IF o = "ok"
        THEN /\ pc' = "init_model"
             /\ attempt' = 0
             /\ last_call' = Returned("_fetch_doc_text", attempt + 1)
             /\ UNCHANGED <<exc, last_init>>
        ELSE LET d == AfterAttempt(FetchRetryTypes, attempt + 1, Plain(o)) IN
             IF d.next = "retry"
             THEN /\ attempt' = attempt + 1
                  /\ last_call' = Retried("_fetch_doc_text", attempt + 1, Plain(o))
                  /\ UNCHANGED <<pc, exc, last_init>>
             ELSE /\ pc' = "init_error"
                  /\ exc' = d.exc
                  /\ attempt' = 0
                  /\ last_init' = "failed"
                  /\ last_call' = Raised("_fetch_doc_text", attempt + 1, Plain(o), d.exc)
    /\ UNCHANGED <<run, sheetState, cacheState, diskState, pending, idx, wgrAttempt,
                   chat_session, model,
                   docLocals, sendLocals, reportLocals, procWritten, unrecorded, blocked>>

\* initialize_session, after the fetch: self.model is the model of the cache
\* (vertex_client.get_model_from_cache) when a cache handle was passed, else
\* the standard model without cache; then self.chat_session = True.  Any error
\* is logged and raised again.
InitSessionModel ==
    /\ pc = "init_model"
    /\ \E o \in Outcomes :
        IF o = "ok"
        THEN /\ chat_session' = TRUE
             /\ model' = IF cache_obj # "none" THEN "from_cache" ELSE "standard"
             /\ last_init' = "ok"
             /\ pc' = "mkdtemp"
             /\ UNCHANGED exc
        ELSE /\ pc' = "init_error"
             /\ exc' = Plain(o)
             /\ last_init' = "failed"
             /\ UNCHANGED <<chat_session, model>>
    /\ last_call' = NoCall
    /\ UNCHANGED <<run, sheetState, cacheState, diskState, pending, idx, attempt, wgrAttempt,
                   docLocals, sendLocals, reportLocals, procWritten, unrecorded, blocked>>

\* except of the session initialisation: update_status(row_idx, "ERROR: No se
\* pudo iniciar chat - ...") then return.  The call is outside any try: an
\* exception of update_status leaves process_single_case and run.
InitErrorUpdateStatus ==
    /\ pc = "init_error"
    /\ \E o \in Outcomes :
        IF o = "ok"
        THEN /\ \E a \in FutureAddresses :
                    SetStatus(Row, "ERROR_INIT", InitErrorText(exc, a))
             /\ last_call' = Returned("update_status", attempt + 1)
             /\ CaseReturn
        ELSE LET d == AfterAttempt(SheetRetryTypes, attempt + 1, Plain(o)) IN
             IF d.next = "retry"
             THEN /\ attempt' = attempt + 1
                  /\ last_call' = Retried("update_status", attempt + 1, Plain(o))
                  /\ UNCHANGED <<pc, run, sheetState, idx, exc, wgrAttempt, docLocals,
                                 reportLocals, report_file>>
             ELSE /\ RunRaises(d.exc)
                  /\ last_call' = Raised("update_status", attempt + 1, Plain(o), d.exc)
                  /\ UNCHANGED <<sheetState, idx, wgrAttempt, docLocals, reportLocals,
                                 report_file>>
    /\ UNCHANGED <<cacheState, temp_dir, pending, sessionState, sendLocals, procWritten, unrecorded, blocked>>

\* temp_dir = tempfile.mkdtemp(), between the session initialisation and the
\* try block: an error of it leaves process_single_case and run.
MakeTempDir ==
    /\ pc = "mkdtemp"
    /\ \E o \in {"ok", "OSError"} :
        IF o = "ok"
        THEN /\ temp_dir' = "exists"
             /\ pc' = "mark_start"
             /\ UNCHANGED <<run, exc, attempt>>
        ELSE /\ RunRaises(Plain(o))
             /\ UNCHANGED temp_dir
    /\ last_call' = NoCall
    /\ UNCHANGED <<sheetState, cacheState, report_file, pending, idx, wgrAttempt,
                   sessionState, docLocals, sendLocals, reportLocals, procWritten,
                   unrecorded, blocked>>

\* now of mark_processing_start: the clock read when the row is marked
\* PROCESSING, which the call writes to the start cell.
ProcessingStartTime == "mark_processing_start"

\* Mutant of ProcessingCells: only the status cell is written.
ProcessingCells_StatusOnly(r) == [sheet EXCEPT ![r].status = "PROCESSING"]

\* The sheet after the batch_update of mark_processing_start: C{row} is
\* 'PROCESSING' and S{row} is the time of the call, in one request.
ProcessingCells(r) == [sheet EXCEPT ![r].status = "PROCESSING", ![r].start = TRUE]

\* A. sheets_service.mark_processing_start(row_idx): one batch_update writes
\* the status PROCESSING and the start time; retry-wrapped.
MarkProcessingStart ==
    /\ pc = "mark_start"
    /\ \E o \in Outcomes :
        IF o = "ok"
        THEN /\ sheet' = ProcessingCells(Row)
             /\ status_text' = "PROCESSING"
             /\ start_time' = ProcessingStartTime
             /\ procWritten' = procWritten \cup {Row}
             /\ pc' = "download"
             /\ attempt' = 0
             /\ last_call' = Returned("mark_processing_start", attempt + 1)
             /\ UNCHANGED exc
        ELSE LET d == AfterAttempt(SheetRetryTypes, attempt + 1, Plain(o)) IN
             IF d.next = "retry"
             THEN /\ attempt' = attempt + 1
                  /\ last_call' = Retried("mark_processing_start", attempt + 1, Plain(o))
                  /\ UNCHANGED <<pc, exc, sheetState, procWritten>>
             ELSE /\ pc' = "except"
                  /\ exc' = d.exc
                  /\ attempt' = 0
                  /\ last_call' = Raised("mark_processing_start", attempt + 1, Plain(o), d.exc)
                  /\ UNCHANGED <<sheetState, procWritten>>
    /\ UNCHANGED <<run, cacheState, diskState, pending, idx, wgrAttempt, sessionState,
                   docLocals, sendLocals, reportLocals, unrecorded, blocked>>

\* Mutant of NoDocumentsCheck: the check of patient_pdfs is missing.
NoDocumentsCheck_Missing(got) ==
    /\ pc' = "fetch_prompt"
    /\ exc' = exc

\* if not patient_pdfs: raise ValueError(...); else execute_grading_flow is next.
NoDocumentsCheck(got) ==
    IF got = <<>>
    THEN pc' = "except" /\ exc' = Raise("ValueError", "no_documents")
    ELSE pc' = "fetch_prompt" /\ exc' = exc

\* B. the download loop: every kind with a usable link is downloaded; a failed
\* download is logged and skipped; no document at all raises ValueError.
DownloadDocuments ==
    /\ pc = "download"
    /\ \E linked \in RowLinks : \E failed \in SUBSET linked :
        LET got == InOrder(linked \ failed) IN
        /\ patient_pdfs' = got
        /\ downloads' = [linked |-> linked, failed |-> failed, ran |-> TRUE]
        /\ UNCHANGED message_parts
        /\ NoDocumentsCheck(got)
    /\ last_call' = NoCall
    /\ UNCHANGED <<run, sheetState, cacheState, diskState, pending, idx, attempt, wgrAttempt,
                   sessionState, sendLocals, reportLocals, procWritten, unrecorded, blocked>>

\* ---------------------------------------------------- execute_grading_flow
\* C. execute_grading_flow up to the prompt: the chat_session check, then
\* _fetch_doc_text(URL_PROMPT_WAES), retry-wrapped; one attempt per step.
\* Its except logs and raises again, so an error reaches process_single_case.
FetchPrompt ==
    /\ pc = "fetch_prompt"
    /\ IF ~chat_session
       THEN /\ pc' = "except"
            /\ exc' = Raise("ValueError", "no_session")
            /\ last_call' = NoCall
            /\ FlowEnds
            /\ UNCHANGED attempt
       ELSE \E o \in Outcomes :
            IF o = "ok"
            THEN /\ pc' = "send"
                 /\ attempt' = 0
                 /\ last_call' = Returned("_fetch_doc_text", attempt + 1)
                 /\ message_parts' = <<"PROMPT">> \o NewParts \o patient_pdfs
                 /\ UNCHANGED <<exc, patient_pdfs, downloads>>
            ELSE LET d == AfterAttempt(FetchRetryTypes, attempt + 1, Plain(o)) IN
                 IF d.next = "retry"
                 THEN /\ attempt' = attempt + 1
                      /\ last_call' = Retried("_fetch_doc_text", attempt + 1, Plain(o))
                      /\ UNCHANGED <<pc, exc, docLocals>>
                 ELSE /\ pc' = "except"
                      /\ exc' = d.exc
                      /\ attempt' = 0
                      /\ FlowEnds
                      /\ last_call' = Raised("_fetch_doc_text", attempt + 1, Plain(o), d.exc)
    /\ UNCHANGED <<run, sheetState, cacheState, diskState, pending, idx, wgrAttempt, sessionState,
                   sendLocals, reportLocals, procWritten, unrecorded, blocked>>

\* ---------------------------------------------- _send_message_with_timeout
\* Mutant of StreamFailure: the check of the assembled text is missing.
StreamFailure_NoTextCheck(err, cs) ==
    IF err # "none" THEN Plain(err)
    ELSE IF cs = <<>> THEN Raise("ValueError", "zero_chunks")
    ELSE NoExc

\* What _send_message_with_timeout raises once the worker has finished in
\* time (NoExc: nothing, the response is built): the stream's error, or
\* ValueError for a stream of no chunk or for chunks without any text.
StreamFailure(err, cs) ==
    IF err # "none" THEN Plain(err)
    ELSE IF cs = <<>> THEN Raise("ValueError", "zero_chunks")
    ELSE IF JoinText(cs) = "" THEN Raise("ValueError", BlockedMessage(cs))
    ELSE NoExc

\* The stream of this attempt ended normally, without any text, its last chunk
\* saying finish_reason SAFETY.
SafetyBlocked(err, cs) ==
    err = "none" /\ cs # <<>> /\ JoinText(cs) = "" /\ cs[Len(cs)].finish = "SAFETY"

\* Mutant of NewChunks: the list of the attempt before is used again.
NewChunks_Kept == chunks

\* chunks = []: every call of _send_message_with_timeout has a list of its
\* own, empty when its stream is opened; the list of the call before went with
\* that call.
NewChunks == <<>>

\* The chunk c as consume_stream of attempt number n appends it to the list of
\* that attempt (attempt: the attempt whose stream delivered it); when it has
\* text it is the i-th chunk with text of the stream and carries that piece.
Received(c, n, i) ==
    [text |-> IF c.text = "" THEN "" ELSE Piece(i), usage |-> c.usage,
     finish |-> c.finish, attempt |-> n]

\* Attempt number n of _send_message_with_timeout raised x: tenacity retries
\* it or lets an exception reach execute_grading_flow, which raises it again.
SendFails(n, x) ==
    LET d == AfterAttempt(ChatRetryTypes, n, x) IN
    IF d.next = "retry"
    THEN /\ pc' = "send"
         /\ attempt' = n
         /\ last_call' = [Retried("_send_message_with_timeout", n, x)
                            EXCEPT !.dropped = Len(chunks)]
         /\ UNCHANGED <<exc, docLocals>>
    ELSE /\ pc' = "except"
         /\ exc' = d.exc
         /\ attempt' = 0
         /\ FlowEnds
         /\ last_call' = [Raised("_send_message_with_timeout", n, x, d.exc)
                            EXCEPT !.dropped = Len(chunks)]

\* One attempt begins: self.model.generate_content(content, stream=True), then
\* executor.submit(consume_stream).
SendMessage ==
    /\ pc = "send"
    /\ \E o \in Outcomes :
        IF o = "ok"
        THEN /\ chunks' = NewChunks
             /\ stream_error' = "none"
             /\ stop_event' = FALSE
             /\ worker' = "running"
             /\ pc' = "send_wait"
             /\ attempt' = attempt + 1
             /\ last_call' = NoCall
             /\ UNCHANGED <<exc, docLocals, blocked>>
        ELSE /\ SendFails(attempt + 1, Plain(o))
             /\ blocked' = blocked \ {Row}
             /\ UNCHANGED sendLocals
    /\ UNCHANGED <<run, sheetState, cacheState, diskState, pending, idx, wgrAttempt, sessionState,
                   reportLocals, procWritten, unrecorded>>

\* consume_stream: the stream gives its next chunk, chunks.append(chunk).
WorkerChunk ==
    /\ worker = "running"
    /\ Len(chunks) < MaxChunks
    /\ \E c \in ChunkValues :
          chunks' = Append(chunks, Received(c, attempt, Len(WithText(chunks)) + 1))
    /\ worker' = "appended"
    /\ UNCHANGED <<pc, run, sheetState, cacheState, diskState, pending, idx, attempt, wgrAttempt, exc,
                   sessionState, docLocals, stop_event, stream_error, reportLocals,
                   last_call, procWritten, unrecorded, blocked>>

\* consume_stream: stop_event.set(), at the end of the loop body after the
\* logging, and in the except clause after the error was kept.
WorkerSetEvent ==
    /\ worker \in {"appended", "caught"}
    /\ stop_event' = TRUE
    /\ worker' = IF worker = "appended" THEN "running" ELSE "ending"
    /\ UNCHANGED <<pc, run, sheetState, cacheState, diskState, pending, idx, attempt, wgrAttempt, exc,
                   sessionState, docLocals, chunks, stream_error, reportLocals,
                   last_call, procWritten, unrecorded, blocked>>

\* consume_stream: the stream ends, or the except clause is over, and the
\* thread finishes.
WorkerEnd ==
    /\ worker \in {"running", "ending"}
    /\ worker' = "done"
    /\ UNCHANGED stop_event
    /\ UNCHANGED <<pc, run, sheetState, cacheState, diskState, pending, idx, attempt, wgrAttempt, exc,
                   sessionState, docLocals, chunks, stream_error, reportLocals,
                   last_call, procWritten, unrecorded, blocked>>

\* consume_stream: the stream raises; except Exception as e:
\* stream_error[0] = e.
WorkerError ==
    /\ worker = "running"
    /\ \E e \in Errors : stream_error' = e
    /\ worker' = "caught"
    /\ UNCHANGED <<pc, run, sheetState, cacheState, diskState, pending, idx, attempt, wgrAttempt, exc,
                   sessionState, docLocals, chunks, stop_event, reportLocals, last_call,
                   procWritten, unrecorded, blocked>>

\* token_counts of execute_grading_flow, of which the output count is kept:
\* candidates_token_count of the usage metadata of the response, which is that
\* of the last chunk.  The count is read as it is: metadata the provider did
\* not fill reads 0, and nothing is computed from the text.  (A provider that
\* fills the metadata is taken to count one token per character generated.)
TokenCounts(resp) ==
    IF resp.usage THEN [output |-> Len(resp.text)] ELSE [output |-> 0]

\* future.result(timeout=API_TIMEOUT_SECONDS) returns: the worker finished in
\* time.  The executor's with block is left at once, then the stream error,
\* the empty stream and the empty text are checked, else the response is built.
FutureResult ==
    /\ pc = "send_wait"
    /\ worker = "done"
    /\ blocked' = IF SafetyBlocked(stream_error, chunks)
                     /\ (attempt = 1 \/ Row \in blocked)
                  THEN blocked \cup {Row}
                  ELSE blocked \ {Row}
    /\ IF StreamFailure(stream_error, chunks) # NoExc
       THEN SendFails(attempt, StreamFailure(stream_error, chunks))
            /\ UNCHANGED reportLocals
       ELSE /\ response' = [text |-> JoinText(chunks),
                            usage |-> chunks[Len(chunks)].usage]
            /\ tokens' = TokenCounts([text |-> JoinText(chunks),
                                       usage |-> chunks[Len(chunks)].usage])
            /\ UNCHANGED <<local_output_path, grading_link>>
            /\ pc' = "save_local"
            /\ attempt' = 0
            /\ FlowEnds
            /\ last_call' = [Returned("_send_message_with_timeout", attempt)
                               EXCEPT !.dropped = Len(chunks)]
            /\ UNCHANGED exc
    /\ chunks' = NewChunks
    /\ stream_error' = "none"
    /\ stop_event' = FALSE
    /\ worker' = "idle"
    /\ UNCHANGED <<run, sheetState, cacheState, diskState, pending, idx, wgrAttempt, sessionState,
                   procWritten, unrecorded>>

\* future.result raises concurrent.futures.TimeoutError: API_TIMEOUT_SECONDS
\* went by and the worker has not finished.  The handler logs and raises
\* TimeoutError inside the with block of the executor.
FutureTimeout ==
    /\ pc = "send_wait"
    /\ worker \notin {"idle", "done"}
    /\ pc' = "executor_exit"
    /\ UNCHANGED <<run, sheetState, cacheState, diskState, pending, idx, attempt, wgrAttempt, exc,
                   sessionState, docLocals, sendLocals, reportLocals, last_call,
                   procWritten, unrecorded, blocked>>

\* Mutant of WorkerJoined: the executor is left without waiting for the worker.
WorkerJoined_NoWait == TRUE

\* shutdown(wait=True) of the executor returns: the worker thread has finished.
WorkerJoined == worker = "done"

\* ThreadPoolExecutor.__exit__ is shutdown(wait=True): the with block is left,
\* and the TimeoutError goes on, only when the worker thread has finished (a
\* thread that has not finished would go on running).
ExecutorExit ==
    /\ pc = "executor_exit"
    /\ WorkerJoined
    /\ SendFails(attempt, Raise("TimeoutError", "timeout"))
    /\ blocked' = blocked \ {Row}
    /\ chunks' = NewChunks
    /\ stream_error' = "none"
    /\ stop_event' = FALSE
    /\ worker' = IF worker = "done" THEN "idle" ELSE worker
    /\ UNCHANGED <<run, sheetState, cacheState, diskState, pending, idx, wgrAttempt, sessionState,
                   reportLocals, procWritten, unrecorded>>

\* --------------------------------------- process_single_case, steps D to F
\* D. the report is written to the local output directory.
SaveLocal ==
    /\ pc = "save_local"
    /\ \E o \in Outcomes :
        IF o = "ok"
        THEN /\ pc' = "upload"
             /\ local_output_path' = "written"
             /\ report_file' = "written"
             /\ UNCHANGED exc
        ELSE \* makedirs or open fails: what was at the path is as it was;
             \* f.write or the close fails: open(..., 'w') has created or
             \* emptied the file, which does not hold the report.
             /\ pc' = "except"
             /\ exc' = Plain(o)
             /\ \E f \in {report_file, "written"} : report_file' = f
             /\ UNCHANGED local_output_path
    /\ last_call' = NoCall
    /\ UNCHANGED <<run, sheetState, cacheState, temp_dir, pending, idx, attempt, wgrAttempt,
                   sessionState, docLocals, sendLocals, response, tokens, grading_link, procWritten, unrecorded, blocked>>

\* Mutant of UploadFailed: a failed upload is ignored.
UploadFailed_Ignored(x) ==
    /\ pc' = "wgr"
    /\ UNCHANGED <<exc, grading_link>>

\* google_manager.upload_file raises x: the except of process_single_case is next.
UploadFailed(x) ==
    /\ pc' = "except"
    /\ exc' = x
    /\ UNCHANGED grading_link

\* E. google_manager.upload_file(...) of the local report.
UploadFile ==
    /\ pc = "upload"
    /\ \E o \in Outcomes :
        IF o = "ok"
        THEN /\ pc' = "wgr"
             /\ grading_link' = "link"
             /\ UNCHANGED exc
        ELSE UploadFailed(Plain(o))
    /\ last_call' = NoCall
    /\ UNCHANGED <<run, sheetState, cacheState, diskState, pending, idx, attempt, wgrAttempt,
                   sessionState, docLocals, sendLocals, response, tokens, local_output_path, procWritten, unrecorded, blocked>>

\* ------------------------------------------------- write_grading_results
\* result_data['start_time'] of process_single_case: datetime.datetime.now(),
\* the clock read when result_data is built, after the upload.
ResultDataStartTime == "result_data"

\* One attempt of write_grading_results begins: sheet.update of M:T (link,
\* tokens, model, version, start and end time); the start cell gets
\* result_data.get('start_time', end_time).
WriteResultsUpdate ==
    /\ pc = "wgr"
    /\ wgrAttempt' = wgrAttempt + 1
    /\ \E o \in Outcomes :
        IF o = "ok"
        THEN /\ sheet' = [sheet EXCEPT ![Row].result = TRUE, ![Row].start = TRUE]
             /\ start_time' = ResultDataStartTime
             /\ pc' = "wgr_completed"
             /\ UNCHANGED exc
        ELSE /\ pc' = "wgr_error"
             /\ exc' = Plain(o)
             /\ UNCHANGED <<sheet, start_time>>
    /\ last_call' = NoCall
    /\ UNCHANGED <<run, cacheState, diskState, pending, idx, attempt, sessionState, status_text,
                   docLocals, sendLocals, reportLocals, procWritten, unrecorded, blocked>>

\* write_grading_results: self.update_status(row_idx, 'COMPLETED'), itself
\* retry-wrapped; when it succeeds write_grading_results returns and the try
\* block of process_single_case ends.
WriteResultsCompleted ==
    /\ pc = "wgr_completed"
    /\ \E o \in Outcomes :
        IF o = "ok"
        THEN /\ SetStatus(Row, "COMPLETED", "COMPLETED")
             /\ last_call' = Returned("write_grading_results", wgrAttempt)
             /\ ToFinally
        ELSE LET d == AfterAttempt(SheetRetryTypes, attempt + 1, Plain(o)) IN
             IF d.next = "retry"
             THEN /\ attempt' = attempt + 1
                  /\ last_call' = Retried("update_status", attempt + 1, Plain(o))
                  /\ UNCHANGED <<pc, run, sheetState, idx, exc, wgrAttempt, docLocals,
                                 reportLocals>>
             ELSE /\ pc' = "wgr_error"
                  /\ exc' = d.exc
                  /\ attempt' = 0
                  /\ last_call' = Raised("update_status", attempt + 1, Plain(o), d.exc)
                  /\ UNCHANGED <<run, sheetState, idx, wgrAttempt, docLocals, reportLocals>>
    /\ UNCHANGED <<cacheState, diskState, pending, sessionState, sendLocals, procWritten, unrecorded, blocked>>

\* The bare raise that ends the except of write_grading_results: tenacity
\* decides on the exception x of this attempt of write_grading_results.
WriteResultsRaise(x) ==
    LET d == AfterAttempt(SheetRetryTypes, wgrAttempt, x) IN
    IF d.next = "retry"
    THEN /\ pc' = "wgr"
         /\ exc' = NoExc
         /\ UNCHANGED wgrAttempt
         /\ last_call' = Retried("write_grading_results", wgrAttempt, x)
    ELSE /\ pc' = "except"
         /\ exc' = d.exc
         /\ wgrAttempt' = 0
         /\ last_call' = Raised("write_grading_results", wgrAttempt, x, d.exc)

\* except: pass, then the bare raise: the error y of the fallback write is
\* dropped and the error being handled, orig, is raised.
FallbackFailed(orig, y) == WriteResultsRaise(orig)

\* except of write_grading_results: self.update_status(row_idx, "ERROR SAVING
\* RESULTS") (retry-wrapped, its own failure swallowed), then raise.
WriteResultsErrorStatus ==
    /\ pc = "wgr_error"
    /\ \E o \in Outcomes :
        IF o = "ok"
        THEN /\ SetStatus(Row, "ERROR_SAVING", "ERROR SAVING RESULTS")
             /\ attempt' = 0
             /\ WriteResultsRaise(exc)
        ELSE LET d == AfterAttempt(SheetRetryTypes, attempt + 1, Plain(o)) IN
             IF d.next = "retry"
             THEN /\ attempt' = attempt + 1
                  /\ last_call' = Retried("update_status", attempt + 1, Plain(o))
                  /\ UNCHANGED <<pc, sheetState, exc, wgrAttempt>>
             ELSE /\ attempt' = 0
                  /\ FallbackFailed(exc, d.exc)
                  /\ UNCHANGED sheetState
    /\ UNCHANGED <<run, cacheState, diskState, pending, idx, sessionState, docLocals,
                   sendLocals, reportLocals, procWritten, unrecorded, blocked>>

\* Mutant of ExceptUpdateStatus: the except of process_single_case only logs
\* the error and writes no status.
ExceptUpdateStatus_OnlyLogs ==
    /\ pc = "except"
    /\ ToFinally
    /\ last_call' = NoCall
    /\ UNCHANGED <<sheetState, cacheState, diskState, pending, sessionState, sendLocals, procWritten,
                   unrecorded, blocked>>

\* except of process_single_case: update_status(row_idx, "ERROR: ...") inside
\* a try whose except only logs; the finally clause is next.
ExceptUpdateStatus ==
    /\ pc = "except"
    /\ \E o \in Outcomes :
        IF o = "ok"
        THEN /\ \E a \in FutureAddresses :
                    SetStatus(Row, "ERROR_PROC", ErrorText(exc, a))
             /\ last_call' = Returned("update_status", attempt + 1)
             /\ ToFinally
             /\ UNCHANGED unrecorded
        ELSE LET d == AfterAttempt(SheetRetryTypes, attempt + 1, Plain(o)) IN
             IF d.next = "retry"
             THEN /\ attempt' = attempt + 1
                  /\ last_call' = Retried("update_status", attempt + 1, Plain(o))
                  /\ UNCHANGED <<pc, run, sheetState, idx, exc, wgrAttempt, docLocals,
                                 reportLocals, unrecorded>>
             ELSE \* except Exception as sheet_err: logger.error(...)
                  /\ last_call' = Raised("update_status", attempt + 1, Plain(o), d.exc)
                  /\ unrecorded' = unrecorded \cup {Row}
                  /\ ToFinally
                  /\ UNCHANGED sheetState
    /\ UNCHANGED <<cacheState, diskState, pending, sessionState, sendLocals, procWritten, blocked>>

\* shutil.rmtree(temp_dir, ignore_errors=True): the directory and the
\* downloads in it are removed, or the removal fails, the error is ignored
\* and the directory stays; the local output directory is another one.
RemoveTree ==
    /\ \E d \in {"none", temp_dir} : temp_dir' = d
    /\ UNCHANGED report_file

\* finally of process_single_case: shutil.rmtree(temp_dir, ignore_errors=True).
Finally ==
    /\ pc = "finally"
    /\ RemoveTree
    /\ pc' = "return"
    /\ UNCHANGED <<run, sheetState, cacheState, pending, idx, attempt, wgrAttempt, exc,
                   sessionState, docLocals, sendLocals, reportLocals, last_call,
                   procWritten, unrecorded, blocked>>

\* process_single_case returns after its finally clause and run goes on with
\* the next row.  (What is on disk stays there; the next case has a temp
\* directory of its own, and its output path is its client's.)
Return ==
    /\ pc = "return"
    /\ CaseReturn
    /\ temp_dir' = "none"
    /\ UNCHANGED <<sheetState, cacheState, pending, sessionState, sendLocals,
                   last_call, procWritten, unrecorded, blocked>>

\* ------------------------------------------------------------------- spec
Next ==
    \/ RunEnsureCache
    \/ GetPendingRows
    \/ InitSessionFetch
    \/ InitSessionModel
    \/ InitErrorUpdateStatus
    \/ MakeTempDir
    \/ MarkProcessingStart
    \/ DownloadDocuments
    \/ FetchPrompt
    \/ SendMessage
    \/ WorkerChunk
    \/ WorkerSetEvent
    \/ WorkerEnd
    \/ WorkerError
    \/ FutureResult
    \/ FutureTimeout
    \/ ExecutorExit
    \/ SaveLocal
    \/ UploadFile
    \/ WriteResultsUpdate
    \/ WriteResultsCompleted
    \/ WriteResultsErrorStatus
    \/ ExceptUpdateStatus
    \/ Finally
    \/ Return

Spec == Init /\ [][Next]_vars

\* ------------------------------------------- the ChatService on its own
\* The shared ChatService called by any caller: initialize_session and
\* execute_grading_flow in any sequence.  The calls are the actions of the
\* program (InitSessionFetch, InitSessionModel, FetchPrompt); what follows is
\* the caller.
\* What the caller of the ChatService leaves alone.
chatCaller == <<run, sheetState, cacheState, diskState, pending, idx, wgrAttempt,
                sendLocals, reportLocals, procWritten, unrecorded, blocked>>

\* ChatService(): self.model = None, self.chat_session = None; no call yet.
InitChat ==
    /\ pc = "chat_idle"
    /\ run = "running"
    /\ sheet = [r \in Rows |-> [status |-> "PENDING", start |-> FALSE, result |-> FALSE]]
    /\ cache_obj \in {"none", "cache"}
    /\ pending = <<>>
    /\ idx = 0
    /\ attempt = 0
    /\ wgrAttempt = 0
    /\ exc = NoExc
    /\ chat_session = FALSE
    /\ model = "none"
    /\ patient_pdfs = <<>>
    /\ chunks = <<>>
    /\ worker = "idle"
    /\ stream_error = "none"
    /\ stop_event = FALSE
    /\ response = NoResponse
    /\ tokens = NoTokens
    /\ last_call = NoCall
    /\ procWritten = {}
    /\ unrecorded = {}
    /\ blocked = {}
    /\ sheet0 = sheet
    /\ caches = 0
    /\ downloads = NoDownloads
    /\ message_parts = <<>>
    /\ local_output_path = "none"
    /\ grading_link = "none"
    /\ status_text = "none"
    /\ start_time = "none"
    /\ last_init = "none"
    /\ temp_dir = "none"
    /\ report_file = "none"

\* The caller calls chat_service.initialize_session(cache_obj=...).
ChatCallInit ==
    /\ pc = "chat_idle"
    /\ pc' = "init_session"
    /\ UNCHANGED <<attempt, exc, last_call, sessionState, docLocals, chatCaller>>

\* initialize_session has returned or raised; the caller goes on.
ChatInitEnded ==
    /\ pc \in {"mkdtemp", "init_error"}
    /\ pc' = "chat_idle"
    /\ exc' = NoExc
    /\ attempt' = 0
    /\ last_call' = NoCall
    /\ UNCHANGED <<sessionState, docLocals, chatCaller>>

\* The caller calls chat_service.execute_grading_flow(patient_files_tuple).
ChatCallFlow ==
    /\ pc = "chat_idle"
    /\ pc' = "fetch_prompt"
    /\ \E S \in SUBSET LinkedKinds : patient_pdfs' = InOrder(S)
    /\ UNCHANGED <<attempt, exc, last_call, sessionState, downloads, message_parts,
                   chatCaller>>

\* execute_grading_flow has raised before the model call, or has its message
\* and calls _send_message_with_timeout (the model call itself is not followed
\* further here); the caller goes on.
ChatFlowEnded ==
    /\ pc \in {"except", "send"}
    /\ pc' = "chat_idle"
    /\ exc' = NoExc
    /\ attempt' = 0
    /\ last_call' = NoCall
    /\ DropDocuments
    /\ UNCHANGED <<sessionState, chatCaller>>

NextChat ==
    \/ ChatCallInit
    \/ InitSessionFetch
    \/ InitSessionModel
    \/ ChatInitEnded
    \/ ChatCallFlow
    \/ FetchPrompt
    \/ ChatFlowEnded

SpecChat == InitChat /\ [][NextChat]_vars

\* ================================================================= claims
ErrorStatuses == {"ERROR_INIT", "ERROR_PROC", "ERROR_SAVING"}
Terminal == ErrorStatuses \cup {"COMPLETED"}

\* The rows get_pending_rows returned, and those whose process_single_case
\* has ended.
PendingRows == {pending[i] : i \in 1..Len(pending)}
FinishedRows == {pending[i] : i \in {j \in 1..Len(pending) : j < idx}}

\* C1 (as stated): after run returns, every row get_pending_rows returned has
\* status COMPLETED or an ERROR status, whatever failed during the run.
C1_Original ==
    run = "returned" => \A r \in PendingRows : sheet[r].status \in Terminal

\* C1 (amended): after run returns, every row get_pending_rows returned has
\* status COMPLETED or an ERROR status, except the rows whose ERROR status the
\* except handler of process_single_case failed to write (logged, swallowed).
C1_AllTerminalOrUnrecorded ==
    run = "returned" =>
        \A r \in PendingRows : sheet[r].status \in Terminal \/ r \in unrecorded

\* C1 witness: run has returned with one row in a terminal status and another
\* left non-terminal because its ERROR status could not be written.
C1_Witness ==
    /\ run = "returned"
    /\ \E r \in PendingRows : sheet[r].status \in Terminal
    /\ \E r \in PendingRows : sheet[r].status \notin Terminal /\ r \in unrecorded

\* C2: once the API timeout has elapsed the caller of
\* _send_message_with_timeout gets its TimeoutError whether or not the worker
\* has finished: it is never blocked until the worker finishes.
C2_TimeoutNotBlockedByWorker ==
    pc = "executor_exit" => ENABLED ExecutorExit

\* C3: once a row's status is COMPLETED or an ERROR value, no later write of
\* the run changes it.
C3_TerminalNeverLeft ==
    [][\A r \in Rows :
          sheet[r].status \in Terminal => sheet'[r].status = sheet[r].status]_vars

\* C4: no row of the run is written COMPLETED or ERROR without PROCESSING
\* having been written for it earlier in the run.
C4_ProcessingFirst ==
    \A r \in PendingRows : sheet[r].status \in Terminal => r \in procWritten

\* C5: no failure of a case leaves process_single_case: once the loop of run
\* has begun, run ends only by returning after the last pending row.
C5_RunProcessesEveryRow ==
    (pc = "done" /\ idx >= 1) => (run = "returned" /\ idx = Len(pending) + 1)

\* C6: an attempt of the model call that ends with an empty response (no chunk,
\* or no text) is retried while attempts remain.
EmptyResponse(x) == x.cls = "ValueError" /\ x.msg # "collaborator"
C6_EmptyResponseRetried ==
    (/\ last_call.op = "_send_message_with_timeout"
     /\ EmptyResponse(last_call.err)
     /\ last_call.attempts < MAX_RETRIES) => last_call.next = "retry"

\* C7 (as stated): a case whose model call had every attempt end empty with
\* finish_reason SAFETY ends with an ERROR status.
C7_Original ==
    \A r \in blocked \cap FinishedRows : sheet[r].status \in ErrorStatuses

\* C7 (amended): such a case is never COMPLETED, its model call takes at most
\* MAX_RETRIES attempts, and it ends with an ERROR status unless the write of
\* that status failed (the row then keeps the status PROCESSING).
C7_BlockedEndsInError ==
    /\ \A r \in blocked : sheet[r].status # "COMPLETED"
    /\ \A r \in blocked \cap FinishedRows :
          \/ sheet[r].status \in ErrorStatuses
          \/ r \in unrecorded /\ sheet[r].status = "PROCESSING"
    /\ pc \in {"send", "send_wait", "executor_exit"} => attempt <= MAX_RETRIES
    /\ last_call.op = "_send_message_with_timeout" => last_call.attempts <= MAX_RETRIES

\* C7 witness: a case whose only model-call attempts were SAFETY-blocked has
\* ended with the ERROR status of the except handler.
C7_Witness ==
    \E r \in blocked \cap FinishedRows : sheet[r].status = "ERROR_PROC"

\* C8: an attempt that raises a malformed-input or authentication error ends
\* the call: the error is not retried and reaches the caller.
NonRetryableBySpec(x) ==
    x.cls \in {"ValueError", "Unauthenticated"} /\ x.msg = "collaborator"
C8_NonRetryableNeverRetried ==
    NonRetryableBySpec(last_call.err) =>
        (last_call.next = "raise" /\ last_call.exc = last_call.err)

\* C9: the exception a retry-wrapped call lets reach its caller is the one its
\* last attempt raised, of the same class.
C9_LastErrorUnchanged ==
    last_call.next = "raise" => last_call.exc.cls = last_call.err.cls

\* C10: one call of a retry-wrapped operation makes at most MAX_RETRIES
\* attempts.
C10_AtMostMaxRetries ==
    /\ attempt <= MAX_RETRIES
    /\ wgrAttempt <= MAX_RETRIES
    /\ last_call.attempts <= MAX_RETRIES

\* C10 witness: a call of write_grading_results has used all its attempts and
\* given up.
C10_Witness ==
    /\ last_call.op = "write_grading_results"
    /\ last_call.next = "raise"
    /\ last_call.attempts = MAX_RETRIES

\* C11: the waits after the consecutive failed attempts of one retry-wrapped
\* call are non-decreasing, each at least RETRY_MIN_WAIT and at most
\* RETRY_MAX_WAIT.
C11_WaitsNonDecreasing ==
    \A i \in 1..Len(last_call.waits) :
        /\ last_call.waits[i] >= RETRY_MIN_WAIT
        /\ last_call.waits[i] <= RETRY_MAX_WAIT
        /\ i > 1 => last_call.waits[i - 1] <= last_call.waits[i]

\* C11 witness: a call has failed MAX_RETRIES - 1 times in a row and its waits
\* have grown from the floor.
C11_Witness ==
    /\ last_call.next = "retry"
    /\ last_call.attempts = MAX_RETRIES - 1
    /\ last_call.waits[1] = RETRY_MIN_WAIT
    /\ last_call.waits[MAX_RETRIES - 1] > last_call.waits[1]

\* The position of the caller is inside process_single_case.
InCase == idx \in 1..Len(pending) /\ pc # "done"

\* C12: no row of the run has an ERROR status and result fields written in
\* the run, once the run has ended.
C12_ResultsOnlyOnCompleted ==
    run # "running" =>
        \A r \in PendingRows : sheet[r].status \in ErrorStatuses => ~sheet[r].result

\* C13: a row is written COMPLETED only by a case in which the model call
\* succeeded, then the report was saved locally, then uploaded, then the result
\* fields were written; a case in which one of these raised is not written
\* COMPLETED.
C13_CompletedAfterAllSteps ==
    /\ \A r \in PendingRows :
          sheet[r].status = "COMPLETED" =>
              /\ sheet[r].result
              /\ r \in FinishedRows
                 \/ (InCase /\ r = Row /\ pc \in {"finally", "return"})
    /\ (InCase /\ pc = "finally" /\ sheet[Row].status = "COMPLETED") =>
          /\ exc = NoExc
          /\ response.text # ""
          /\ local_output_path = "written"
          /\ grading_link = "link"
    /\ local_output_path = "written" => response.text # ""
    /\ grading_link = "link" => local_output_path = "written"
    /\ (InCase /\ sheet[Row].result) => grading_link = "link"
    /\ (InCase /\ (pc = "except" \/ (pc = "finally" /\ exc # NoExc))) =>
          sheet[Row].status # "COMPLETED"

\* C13 witness: the try block of a case has ended with the row COMPLETED.
C13_Witness ==
    InCase /\ pc = "finally" /\ sheet[Row].status = "COMPLETED"

\* The download loop of the case has run and no document resolved.
NoDocumentsCase == downloads.ran /\ downloads.linked \ downloads.failed = {}

\* C14 (as stated): a case in which no document resolved ends with an ERROR
\* status.
C14_Original ==
    (InCase /\ pc = "finally" /\ NoDocumentsCase) =>
        sheet[Row].status \in ErrorStatuses

\* C14 (amended): a case in which no document resolved never reaches
\* execute_grading_flow, and it ends with the ERROR status that names the
\* missing documents unless the write of that status failed (the row then
\* keeps the status PROCESSING).
C14_NoDocumentsEndsInError ==
    /\ NoDocumentsCase =>
          /\ pc \in {"except", "finally", "return"}
          /\ exc = Raise("ValueError", "no_documents")
          /\ message_parts = <<>>
          /\ worker = "idle"
          /\ response = NoResponse
    /\ (InCase /\ pc = "finally" /\ NoDocumentsCase) =>
          \/ /\ sheet[Row].status = "ERROR_PROC"
             /\ status_text = "ERROR: No se pudieron descargar documentos validos para e"
          \/ /\ sheet[Row].status = "PROCESSING"
             /\ Row \in unrecorded

\* C14 witness: every download of a case failed and its row has the ERROR
\* status.
C14_Witness ==
    /\ InCase /\ pc = "finally" /\ NoDocumentsCase
    /\ downloads.failed # {}
    /\ sheet[Row].status = "ERROR_PROC"

\* The place of a document kind in docs_to_download.
KindIndex(k) == CHOOSE i \in 1..Len(DocKinds) : DocKinds[i] = k

\* The documents of the row whose download succeeded.
Resolved == downloads.linked \ downloads.failed

\* C15: a failed download does not abort the case: when at least one document
\* resolves, the download loop is followed by the model call's preparation
\* with no exception raised; and the message of every model call holds, after
\* the prompt, exactly the documents that resolved, in the order of
\* docs_to_download.
C15_ModelGetsResolvedDocuments ==
    /\ [][(pc = "download" /\ pc' # pc /\ downloads'.linked \ downloads'.failed # {}) =>
              (pc' = "fetch_prompt" /\ exc' = NoExc)]_vars
    /\ [](pc \in {"send", "send_wait", "executor_exit"} =>
              LET docs == Tail(message_parts) IN
              /\ downloads.ran
              /\ message_parts[1] = "PROMPT"
              /\ docs # <<>>
              /\ docs = patient_pdfs
              /\ {docs[i] : i \in 1..Len(docs)} = Resolved
              /\ \A i, j \in 1..Len(docs) : i < j => KindIndex(docs[i]) < KindIndex(docs[j]))

\* C15 witness: the case is COMPLETED although the download of one of its two
\* documents failed: the model was called with the other one alone.
C15_Witness ==
    /\ InCase /\ pc = "finally"
    /\ sheet[Row].status = "COMPLETED"
    /\ Cardinality(downloads.linked) = 2
    /\ Cardinality(downloads.failed) = 1
    /\ Len(patient_pdfs) = 1
    /\ patient_pdfs[1] \in Resolved

\* C16: every write to the sheet is to the row being processed, which was
\* PENDING when the run began: no other row is ever written.
C16_OnlyPendingRowsWritten ==
    [][\A r \in Rows :
          sheet'[r] # sheet[r] =>
              /\ InCase
              /\ r = Row
              /\ sheet0[r].status = "PENDING"]_vars

\* C16 witness: the run has returned, a row that was PENDING is COMPLETED and
\* a row left PROCESSING by an earlier run is as it was.
C16_Witness ==
    /\ run = "returned"
    /\ \E r \in Rows : sheet0[r].status = "PENDING" /\ sheet[r].status = "COMPLETED"
    /\ \E r \in Rows : sheet0[r].status = "PROCESSING" /\ sheet[r] = sheet0[r]

\* C17: the cache is created at most once in a run, its handle is the one
\* run keeps from then on, and every session is initialised with it.
C17_CacheCreatedOnce ==
    /\ caches <= 1
    /\ cache_obj = "cache" <=> caches = 1
    /\ idx >= 1 => cache_obj = "cache"
    /\ model # "standard"

\* C17 witness: the session of the second case has been initialised with the
\* cache created at the beginning of the run.
C17_Witness ==
    /\ idx = 2
    /\ pc = "mark_start"
    /\ model = "from_cache"
    /\ caches = 1

\* C18: when the creation of the cache has failed after its retries, the run
\* has ended: no pending list, no case, no model call, no write to the sheet.
C18_CacheFailureAbortsRun ==
    (last_call.op = "create_cache" /\ last_call.next = "raise") =>
        /\ pc = "done"
        /\ run = "returned"
        /\ pending = <<>>
        /\ idx = 0
        /\ sheet = sheet0
        /\ status_text = "none"
        /\ model = "none"
        /\ worker = "idle"
        /\ message_parts = <<>>
        /\ ~ENABLED Next

\* C18 witness: the creation of the cache has failed MAX_RETRIES times while a
\* row was PENDING.
C18_Witness ==
    /\ last_call.op = "create_cache"
    /\ last_call.next = "raise"
    /\ last_call.attempts = MAX_RETRIES
    /\ \E r \in Rows : sheet[r].status = "PENDING"

\* C19: when initialize_session has failed for a case, the case ends with its
\* row written ERROR and run goes on with the next pending row.
C19_InitFailureSkipsCase ==
    [][(pc = "init_error" /\ pc' # "init_error") =>
          /\ sheet'[Row].status = "ERROR_INIT"
          /\ run' # "raised"
          /\ idx' = idx + 1]_vars

\* C20: a worker consumes a stream only while its own model call is waiting
\* for it: no attempt and no case begins while a worker is alive.
C20_OneModelCallAtATime ==
    worker # "idle" => pc \in {"send_wait", "executor_exit"}

\* C20 witness: an attempt of the model call has timed out, its worker has
\* finished, and the next attempt is about to begin.
C20_Witness ==
    /\ pc = "send"
    /\ worker = "idle"
    /\ last_call.next = "retry"
    /\ last_call.err.cls = "TimeoutError"

\* The model call of the case is in progress: its stream is open, or the
\* executor is being left after the timeout.
InModelCall == pc \in {"send_wait", "executor_exit"}

\* C21: the chunks of a failed attempt of the model call are discarded: the
\* list a response is assembled from holds only chunks the stream of the
\* attempt in progress delivered, an attempt begins with no chunk and no
\* worker of an earlier attempt, and outside the model call there is no chunk.
C21_OnlyChunksOfThisAttempt ==
    /\ \A i \in 1..Len(chunks) : chunks[i].attempt = attempt
    /\ ~InModelCall => chunks = <<>> /\ worker = "idle"

\* C21 witness: an attempt of the model call timed out or broke mid-stream
\* having received chunks; they were dropped, and tenacity is about to call
\* the function again with no chunk and no worker.
C21_Witness ==
    /\ pc = "send"
    /\ last_call.op = "_send_message_with_timeout"
    /\ last_call.next = "retry"
    /\ last_call.err.cls \in {"TimeoutError", "ServiceUnavailable"}
    /\ last_call.dropped > 0
    /\ chunks = <<>>
    /\ worker = "idle"
\* C22 (as stated): when no streamed chunk carries token usage metadata, the
\* case still completes and the output token count recorded for it is the
\* length of the generated text divided by four (integer division).
C22_OutputTokensEstimated ==
    (pc = "finally" /\ sheet[Row].status = "COMPLETED" /\ ~response.usage)
        => tokens.output = Len(response.text) \div 4
\* C23: in every reachable state a row whose status is PROCESSING has its
\* start-time cell set (the status and the start time are written together).
C23_ProcessingHasStartTime ==
    \A r \in Rows : sheet[r].status = "PROCESSING" => sheet[r].start

\* C23 witness: a row that had no start time when the run began is PROCESSING,
\* written by this run, and has its start time.
C23_Witness ==
    \E r \in procWritten :
        /\ ~sheet0[r].start
        /\ sheet[r].status = "PROCESSING"
        /\ sheet[r].start
\* process_single_case is between the creation of its temp directory and its
\* finally clause.
InTry == pc \in {"mark_start", "download", "fetch_prompt", "send", "send_wait",
                 "executor_exit", "save_local", "upload", "wgr", "wgr_completed",
                 "wgr_error", "except", "finally"}

\* C24 (as stated): when process_single_case ends, by any path, the temp
\* directory of the case has been removed (no temp directory exists outside
\* the try block and its handlers), and a report written to the local output
\* directory is still there, also when the upload or the sheet write failed.
C24_TempDirRemovedReportKept ==
    /\ ~InTry => temp_dir = "none"
    /\ local_output_path = "written" => report_file = "written"

\* C25 (as stated): the pending list is read once, before the first case, and
\* each row of it is processed exactly once, in list order: when the run is
\* over after the list was read, the loop has gone through the whole list.
C25_EveryRowProcessedOnce ==
    (pc = "done" /\ idx >= 1) => idx = Len(pending) + 1
\* The text s begins with the text p.
HasPrefix(s, p) == Len(s) >= Len(p) /\ SubSeq(s, 1, Len(p)) = p

\* The case has failed at a step of the try block of process_single_case and
\* its except has run.
ProcessingFailed == pc = "finally" /\ exc # NoExc

\* C26 (as stated): every failure at a step of the case after PROCESSING
\* writes an ERROR status, whose reason is cut to 50 characters.
C26_Original ==
    ProcessingFailed =>
        /\ sheet[Row].status = "ERROR_PROC"
        /\ Len(status_text) <= Len("ERROR: ") + 50

\* C26 (amended): every failure at a step of the case after PROCESSING writes,
\* unless the write of the status itself fails, the status 'ERROR: ' followed
\* by the first 50 characters of the error's text; the status of a
\* session-init failure carries at most 40 characters of the error's text;
\* so every ERROR status text written has a fixed maximum length.
C26_ErrorReasonTruncated ==
    /\ (ProcessingFailed /\ Row \notin unrecorded) =>
            /\ sheet[Row].status = "ERROR_PROC"
            /\ \E a \in FutureAddresses :
                   status_text =
                       "ERROR: " \o SubSeq(Str(exc, a), 1, Min(Len(Str(exc, a)), 50))
    /\ IF HasPrefix(status_text, "ERROR: No se pudo iniciar chat - ")
       THEN Len(status_text) <= Len("ERROR: No se pudo iniciar chat - ") + 40
       ELSE HasPrefix(status_text, "ERROR") =>
                Len(status_text) <= Len("ERROR: ") + 50

\* C26 witness: a processing failure whose text is longer than 50 characters
\* has been written as an ERROR status of 'ERROR: ' and 50 characters.
C26_Witness ==
    /\ ProcessingFailed
    /\ \A a \in FutureAddresses : Len(Str(exc, a)) > 50
    /\ sheet[Row].status = "ERROR_PROC"
    /\ Len(status_text) = Len("ERROR: ") + 50
\* C27 (as stated): when write_grading_results ends by raising after its
\* except ran (the fallback write of 'ERROR SAVING RESULTS' made, or failed
\* and swallowed), the exception its caller receives is the error that
\* brought it to the except.
C27_OriginalErrorToCaller ==
    [][(pc = "wgr_error" /\ pc' = "except") => exc' = exc]_vars
\* The request a case with the documents docs sends when the handle of the
\* shared cache is handle: the model of that cache (the standard model without
\* one) and the fetched prompt followed by the documents.
RequestFor(docs, handle) ==
    [model |-> IF handle # "none" THEN "from_cache" ELSE "standard",
     parts |-> <<"PROMPT">> \o docs]

\* C28: the request sent to the model for a case (the model and the parts of
\* the message) is a function of that case's own documents, the handle of the
\* shared cache and the fetched instruction texts alone: whatever the earlier
\* cases of the run were and however they ended, the same documents give the
\* same request, and nothing of an earlier case is in it.
C28_RequestFromOwnCaseOnly ==
    pc \in {"send", "send_wait", "executor_exit"} =>
        [model |-> model, parts |-> message_parts]
            = RequestFor(patient_pdfs, cache_obj)

\* C28 witness: the model call of the second case of the run is in progress,
\* with the request of its own documents, after a first case that reached the
\* model with documents of its own and ended in an ERROR status.
C28_Witness ==
    /\ pc = "send_wait"
    /\ idx = 2
    /\ sheet[pending[1]].status = "ERROR_PROC"
    /\ pending[1] \in blocked
    /\ [model |-> model, parts |-> message_parts]
           = RequestFor(patient_pdfs, cache_obj)
    /\ Len(message_parts) = 1 + Len(patient_pdfs)
\* The texts of the chunks of cs one after the other, in the order of cs.
RECURSIVE Concatenation(_)
Concatenation(cs) ==
    IF cs = <<>> THEN ""
    ELSE Concatenation(SubSeq(cs, 1, Len(cs) - 1)) \o cs[Len(cs)].text

\* C29: when the stream has ended normally, a stream of zero chunks makes the
\* call fail; a stream in which some chunk has text makes the call return the
\* texts of the chunks that have text, concatenated in arrival order, with the
\* usage of the last chunk, whatever chunks without text or without metadata
\* are among them (a stream in which no chunk has text is the empty response
\* of C6 and C7).
C29_TextIsConcatenationOfChunks ==
    [][(pc = "send_wait" /\ worker = "done" /\ stream_error = "none" /\ pc' # pc) =>
          IF chunks = <<>>
          THEN /\ pc' = "except"
               /\ last_call'.err = Raise("ValueError", "zero_chunks")
          ELSE IF WithText(chunks) # <<>>
          THEN /\ pc' = "save_local"
               /\ last_call'.op = "_send_message_with_timeout"
               /\ last_call'.attempts = attempt
               /\ last_call'.next = "return"
               /\ last_call'.dropped = Len(chunks)
               /\ response'.text = Concatenation(WithText(chunks))
               /\ response'.usage = chunks[Len(chunks)].usage
          ELSE /\ pc' = "except"
               /\ last_call'.err.cls = "ValueError"]_vars

\* C29 witness: the call has returned the text of a stream of three chunks of
\* which one had text, the last one carrying the usage metadata: a chunk
\* without text came before the last chunk and was skipped.
C29_Witness ==
    /\ pc = "save_local"
    /\ last_call.op = "_send_message_with_timeout"
    /\ last_call.dropped = 3
    /\ response.text = Piece(1)
    /\ response.usage
\* C30 (as stated): a stream that delivers no chunk for CHUNK_TIMEOUT_S makes
\* the call fail without waiting for the overall API timeout: the wait for
\* the worker never ends by the API timeout on a stream that has delivered no
\* chunk at all and raised no error (stop_event never set), silent for the
\* whole API_TIMEOUT_SECONDS.
C30_WatchdogEndsSilentStream ==
    CHUNK_TIMEOUT_S < API_TIMEOUT_SECONDS =>
        ~(pc = "executor_exit" /\ ~stop_event /\ chunks = <<>> /\ stream_error = "none")
\* C31 (as stated): the start time stored with a row this run completed is
\* the one written when the row was marked PROCESSING: the write of the
\* results does not put a later time in its place.
C31_StartTimeKept ==
    (pc = "finally" /\ Row \in procWritten /\ sheet[Row].status = "COMPLETED")
        => start_time = ProcessingStartTime
\* C32 (as stated): on the shared ChatService, in any sequence of calls,
\* execute_grading_flow gets as far as the model call only if the most recent
\* call of initialize_session succeeded; after a failed one, or none, it is
\* rejected.
C32_FlowOnlyAfterSuccessfulInit ==
    pc = "send" => last_init = "ok"
====
